---- MODULE Spec2Model ----
(***************************************************************************)
(* numtools: fixed-step ODE steppers (odes.py), the Point-Jacobi Poisson   *)
(* solver (pdes.py) and the Newton-Raphson root solver (utils/utils.py).   *)
(*                                                                         *)
(* Every number the code computes is a binary floating-point value; here a *)
(* float is a record [m, e] standing for m * 2^e, kept canonical (m odd,   *)
(* or m = 0 and e = 0), with a significand of Precision bits and every     *)
(* operation rounded to nearest, ties to even, as IEEE arithmetic rounds.  *)
(***************************************************************************)
EXTENDS Integers, Sequences, FiniteSets

\* ------------------------------------------------------------------ bounds
\* Significand width of the floating-point format (53 in the code's doubles).
Precision == 4
\* Largest iteration budget (max_iter) the callers pass.
MaxIter == 2
\* Largest end time tf the callers pass.
MaxTf == 3

\* ------------------------------------------------- floating-point numbers
RECURSIVE Pow2(_)
Pow2(b) == IF b <= 0 THEN 1 ELSE 2 * Pow2(b - 1)

RECURSIVE BitLen(_)
BitLen(v) == IF v <= 0 THEN 0 ELSE 1 + BitLen(v \div 2)

Abs(v) == IF v < 0 THEN -v ELSE v

RECURSIVE Norm(_, _)
Norm(m, e) ==
    IF m = 0 THEN [m |-> 0, e |-> 0]
    ELSE IF m % 2 = 0 THEN Norm(m \div 2, e + 1)
    ELSE [m |-> m, e |-> e]

\* The float nearest to m * 2^e (ties to even).
Round(m, e) ==
    LET a == Abs(m)
        drop == BitLen(a) - Precision
    IN  IF drop <= 0 THEN Norm(m, e)
        ELSE LET q    == a \div Pow2(drop)
                 r    == a % Pow2(drop)
                 half == Pow2(drop - 1)
                 up   == r > half \/ (r = half /\ q % 2 = 1)
                 q2   == IF up THEN q + 1 ELSE q
             IN  Norm(IF m < 0 THEN -q2 ELSE q2, e + drop)

FromInt(v) == Round(v, 0)
\* num / 2^b, for literals such as 0.25 or 1.5
Dyadic(num, b) == Round(num, -b)

Top(x) == x.e + BitLen(Abs(x.m))

FNeg(x) == [m |-> -x.m, e |-> x.e]

FAbs(x) == [m |-> Abs(x.m), e |-> x.e]

FAdd(x, y) ==
    IF x.m = 0 THEN y
    ELSE IF y.m = 0 THEN x
    ELSE IF Top(x) - Top(y) > Precision + 2 THEN x
    ELSE IF Top(y) - Top(x) > Precision + 2 THEN y
    ELSE LET e == IF x.e < y.e THEN x.e ELSE y.e
         IN  Round(x.m * Pow2(x.e - e) + y.m * Pow2(y.e - e), e)

FSub(x, y) == FAdd(x, FNeg(y))

FMul(x, y) == Round(x.m * y.m, x.e + y.e)

\* x / y for y # 0: the quotient of the significands to 2*Precision+2 extra
\* bits, with a sticky bit for the remainder, then rounded once.
FDiv(x, y) ==
    LET s   == 2 * Precision + 2
        num == Abs(x.m) * Pow2(s)
        d   == Abs(y.m)
        q   == num \div d
        r   == num % d
        qs  == 2 * q + (IF r = 0 THEN 0 ELSE 1)
        neg == (x.m < 0) # (y.m < 0)
    IN  Round(IF neg THEN -qs ELSE qs, x.e - y.e - s - 1)

FLt(x, y) == FSub(x, y).m < 0

FLe(x, y) == FSub(x, y).m <= 0

\* ceil(x) as an integer
FCeil(x) ==
    IF x.e >= 0 THEN x.m * Pow2(x.e)
    ELSE -((-x.m) \div Pow2(-x.e))

Zero == FromInt(0)

One == FromInt(1)

Two == FromInt(2)

Half == Dyadic(1, 1)

\* ------------------------------------------------------- numpy.arange
\* np.arange(start, stop, step) for step # 0: ceil((stop - start)/step)
\* points (none when that is negative); the first two are start and
\* start + step, the others start + i*delta with delta their difference.
ArangeLen(start, stop, step) ==
    LET len == FCeil(FDiv(FSub(stop, start), step))
    IN  IF len < 0 THEN 0 ELSE len

Arange(start, stop, step) ==
    LET next  == FAdd(start, step)
        delta == FSub(next, start)
    IN  [i \in 1..ArangeLen(start, stop, step) |->
            IF i = 1 THEN start
            ELSE IF i = 2 THEN next
            ELSE FAdd(start, FMul(FromInt(i - 1), delta))]

\* --------------------------------------------- right-hand sides f(y, t)
\* The caller's f and dfdy: linear decay, a time-dependent linear law and
\* a quadratic law.
Fids == {"decay", "ramp", "quad"}

f(fid, y, tm) ==
    CASE fid = "decay" -> FNeg(y)
      [] fid = "ramp"  -> FSub(tm, y)
      [] fid = "quad"  -> FNeg(FMul(y, y))

dfdy(fid, y, tm) ==
    CASE fid = "decay" -> FNeg(One)
      [] fid = "ramp"  -> FNeg(One)
      [] fid = "quad"  -> FMul(FNeg(Two), y)

\* ------------------------------------------------------ one time step
\* y_(n+1) = y_n + dtv*f(y_n, t_n)
EulerUpdate(fid, ynv, tnv, dtv) == FAdd(ynv, FMul(dtv, f(fid, ynv, tnv)))

RK2Update(fid, ynv, tnv, dtv) ==
    LET k1 == FMul(dtv, f(fid, ynv, tnv))
        k2 == FMul(dtv, f(fid, FAdd(ynv, FDiv(k1, Two)), FAdd(tnv, FDiv(dtv, Two))))
    IN  FAdd(ynv, k2)

RK4Update(fid, ynv, tnv, dtv) ==
    LET c1  == FDiv(One, FromInt(6))
        c2  == FDiv(One, FromInt(3))
        c3  == FDiv(One, FromInt(6))
        tnm == FAdd(tnv, FDiv(dtv, Two))
        k1  == FMul(dtv, f(fid, ynv, tnv))
        k2  == FMul(dtv, f(fid, FAdd(ynv, FDiv(k1, Two)), tnm))
        k3  == FMul(dtv, f(fid, FAdd(ynv, FDiv(k2, Two)), tnm))
        k4  == FMul(dtv, f(fid, FAdd(ynv, k3), FAdd(tnv, dtv)))
    IN  FAdd(FAdd(FAdd(ynv, FMul(c1, k1)), FMul(c2, FAdd(k2, k3))), FMul(c3, k4))

\* ynp = ynv + c1*dtv*fnv + c2*dtv*fnmv with c1, c2 = 3/2, -1/2
AB2Update(ynv, fnv, fnmv, dtv) ==
    LET c1 == Dyadic(3, 1)
        c2 == Dyadic(-1, 1)
    IN  FAdd(FAdd(ynv, FMul(FMul(c1, dtv), fnv)), FMul(FMul(c2, dtv), fnmv))

\* Crank-Nicolson: the denominator of the linearized step, which is also
\* the frozen derivative dFdy of the Newton correction.
CNDen(fid, ynv, tnpv, dtv) == FSub(One, FMul(FDiv(dtv, Two), dfdy(fid, ynv, tnpv)))

CNLinearized(fid, ynv, tnv, dtv) ==
    LET coeff == FDiv(dtv, Two)
        tnpv   == FAdd(tnv, dtv)
        num   == FAdd(f(fid, ynv, tnpv), f(fid, ynv, tnv))
    IN  FAdd(ynv, FDiv(FMul(coeff, num), CNDen(fid, ynv, tnpv, dtv)))

\* F = ynp - coeff*f(ynp, tnpv) - ynv - coeff*fnv
CNResidual(fid, y, ynv, fnv, tnpv, dtv) ==
    LET coeff == FDiv(dtv, Two)
    IN  FSub(FSub(FSub(y, FMul(coeff, f(fid, y, tnpv))), ynv), FMul(coeff, fnv))

\* (the loop test with <= for <)
NewtonContinueLe(Fv, tolv, it, maxit) == FLt(tolv, FAbs(Fv)) /\ it <= maxit

\* while np.abs(F)>tol and niter<max_iter
NewtonContinue(Fv, tolv, it, maxit) == FLt(tolv, FAbs(Fv)) /\ it < maxit

\* Y[:-1]
Trim(Yv) == SubSeq(Yv, 1, Len(Yv) - 1)

\* The time axis of every stepper: np.arange(ti, tf+dtv, dtv)
TimeAxisOpen(tiv, tfv, dtv) == Arange(tiv, tfv, dtv)

TimeAxis(tiv, tfv, dtv) == Arange(tiv, FAdd(tfv, dtv), dtv)

\* runge_kutta4 called as a function (adams_bashforth2's first step): the
\* whole marching loop, then the trim.
RECURSIVE RK4Loop(_, _, _, _, _, _)
RK4Loop(fid, dtv, Nv, Yv, tnv, nv) ==
    IF nv < Nv
    THEN RK4Loop(fid, dtv, Nv, Append(Yv, RK4Update(fid, Yv[Len(Yv)], tnv, dtv)),
                 FAdd(tnv, dtv), nv + 1)
    ELSE Yv

runge_kutta4(fid, y0v, dtv, tiv, tfv) ==
    LET tv == TimeAxis(tiv, tfv, dtv)
    IN  [Y |-> Trim(RK4Loop(fid, dtv, Len(tv), <<y0v>>, tiv, 0)), t |-> tv]

\* ------------------------------------------------- pjacobi_poissoneq
Cells(sh) == (0..(sh[1] - 1)) \X (0..(sh[2] - 1))

\* for j in range(1, M-1): for i in range(1, N-1)
Interior(sh) == (1..(sh[1] - 2)) \X (1..(sh[2] - 2))

Boundary(sh) == Cells(sh) \ Interior(sh)

\* The interior cells in the order the two loops visit them.
RECURSIVE SweepOrder(_, _, _)
SweepOrder(sh, j, i) ==
    IF j > sh[1] - 2 THEN <<>>
    ELSE IF i > sh[2] - 2 THEN SweepOrder(sh, j + 1, 1)
    ELSE <<<<j, i>>>> \o SweepOrder(sh, j, i + 1)

\* 0.25*(phi[j-1,i] + phi[j+1,i] + phi[j,i-1] + phi[j,i+1] - RHS[j,i])
Stencil(a, rhs, c) ==
    LET j == c[1]
        i == c[2]
    IN  FMul(Dyadic(1, 2),
             FSub(FAdd(FAdd(FAdd(a[<<j - 1, i>>], a[<<j + 1, i>>]),
                            a[<<j, i - 1>>]), a[<<j, i + 1>>]),
                  rhs[c]))

\* The double loop: each assignment reads the array named phi and writes
\* the array named phip, on the heap as it is at that moment.
RECURSIVE SweepFrom(_, _, _, _, _)
SweepFrom(h, phiR, phipR, rhs, order) ==
    IF order = <<>> THEN h
    ELSE LET c == Head(order)
         IN  SweepFrom([h EXCEPT ![phipR][c] = Stencil(h[phiR], rhs, c)],
                       phiR, phipR, rhs, Tail(order))

\* np.abs(phip-phi).max()
RECURSIVE MaxOver(_, _)
MaxOver(a, cs) ==
    IF cs = {} THEN Zero
    ELSE LET c    == CHOOSE x \in cs : TRUE
             rest == MaxOver(a, cs \ {c})
         IN  IF FLt(rest, a[c]) THEN a[c] ELSE rest

MaxAbsDiff(a, b) ==
    MaxOver([c \in DOMAIN a |-> FAbs(FSub(a[c], b[c]))], DOMAIN a)

\* while np.abs(phip-phi).max()>tol and k<=max_iter
SweepAgain(h, phiR, phipR, tolv, kv, maxit) ==
    FLt(tolv, MaxAbsDiff(h[phipR], h[phiR])) /\ kv <= maxit

\* (phi = phip.copy(): a second array instead of a second name)
RebindCopy(h, phipR) ==
    [heap |-> [x \in DOMAIN h \cup {"c"} |-> IF x = "c" THEN h[phipR] ELSE h[x]],
     phi |-> "c"]

\* phi = phip
Rebind(h, phipR) == [heap |-> h, phi |-> phipR]

\* The arguments the callers pass, and the values np.random.random draws.
Shapes == {<<3, 3>>, <<3, 4>>, <<4, 3>>}

Phi0Fields(sh) ==
    { [c \in Cells(sh) |-> Zero],
      [c \in Cells(sh) |-> IF c[1] = 0 THEN One ELSE Zero],
      [c \in Cells(sh) |-> FromInt(c[1] + 2 * c[2])] }

RHSFields(sh) ==
    { [c \in Cells(sh) |-> Zero],
      [c \in Cells(sh) |-> IF c \in Interior(sh) THEN One ELSE Zero] }

PdeTolSet == {Zero, Dyadic(1, 2), One}

RandomValues == {Zero, Dyadic(1, 2), Dyadic(1, 1), Dyadic(3, 2)}

RandomFields(sh) ==
    { [c \in Cells(sh) |-> IF (c[1] + c[2]) % 2 = 0 THEN a ELSE b] :
        a \in RandomValues, b \in RandomValues }

\* ---------------------------------------------------------------- newton
Ffuns == {"square", "line"}

\* F(x) = x^2 - 2 and F(x) = x - 1
Feval(fun, x) ==
    CASE fun = "square" -> FSub(FMul(x, x), Two)
      [] fun = "line"   -> FSub(x, One)

dFdx(fun, x) ==
    CASE fun = "square" -> FMul(Two, x)
      [] fun = "line"   -> One

\* guess=None
None == [given |-> FALSE, value |-> Zero]

GuessSet == {None} \cup {[given |-> TRUE, value |-> FromInt(i)] : i \in 0..3}

NwTolSet == {Zero, Dyadic(1, 3), One}

\* if not guess: guess = 10.*tol
FirstIterate(g, tolv) ==
    IF ~g.given \/ g.value = Zero THEN FMul(FromInt(10), tolv) ELSE g.value

\* while F(xn)>tol and niter<max_iter
NewtonAgain(fun, x, tolv, it, maxit) == FLt(tolv, Feval(fun, x)) /\ it < maxit

\* ---------------------------------------------------------------- state
\* One call of one routine per behaviour.  pc is where the call is: "start",
\* "loop", "newton", "done", or the exception that ended it.
VARIABLES pc, tol, max_iter, niter

\* The ODE steppers (odes.py).
VARIABLES
    method,     \* which stepper is called
    fid,        \* the caller's f (and dfdy)
    fcallable,  \* callable(f), and callable(dfdy) for crank_nicolson
    y0, dt, ti, tf, linearize,                  \* the arguments
    t, N, Y, yn, tn, n,                         \* the marching loop's locals
    fn, tnp, ynp, F,                            \* crank_nicolson's locals
    fnm,                                        \* adams_bashforth2's cached RHS
    ylin,       \* history: the linearized value of the current CN step
    evaluated   \* history: f has been called

\* pjacobi_poissoneq (pdes.py).  Arrays live on a heap and the names phi and
\* phip refer to them, so that `phi = phip` binds a name and
\* `phip[j,i] = ...` writes an array.
VARIABLES
    shape,      \* (M, N) of phi0
    RHS, phi0,  \* the arguments (with tol and max_iter)
    heap,       \* array id -> array
    phi, phip,  \* the array each name refers to
    k,
    before      \* history: the previous full-grid iterate

\* newton (utils/utils.py).
VARIABLES
    Ffun,       \* the caller's F (and dFdx)
    Fcallable,  \* callable(F) and callable(dFdx)
    guess,      \* [given, value]: the supplied guess, or None (not given)
    xn

odeOnly == <<method, fid, fcallable, y0, dt, ti, tf, linearize,
             t, N, Y, yn, tn, n, fn, tnp, ynp, F, fnm, ylin, evaluated>>

pdeOnly == <<shape, RHS, phi0, heap, phi, phip, k, before>>

nwOnly == <<Ffun, Fcallable, guess, xn>>

vars == <<odeOnly, pdeOnly, nwOnly, pc, tol, max_iter, niter>>

odeArgs == <<method, fid, fcallable, y0, dt, ti, tf, linearize, tol, max_iter>>

cnLocals == <<fn, tnp, ynp, F, niter, ylin>>

pdeArgs == <<shape, RHS, phi0, tol, max_iter>>

nwArgs == <<Ffun, Fcallable, guess, tol, max_iter>>

\* The variables of the routines that are not called stay at rest.
OdeIdle ==
    /\ method = "none" /\ fid = "none" /\ fcallable = FALSE
    /\ y0 = Zero /\ dt = Zero /\ ti = Zero /\ tf = Zero /\ linearize = TRUE
    /\ t = <<>> /\ N = 0 /\ Y = <<>> /\ yn = Zero /\ tn = Zero /\ n = 0
    /\ fn = Zero /\ tnp = Zero /\ ynp = Zero /\ F = Zero
    /\ fnm = Zero /\ ylin = Zero /\ evaluated = FALSE

PdeIdle ==
    /\ shape = <<0, 0>> /\ RHS = <<>> /\ phi0 = <<>> /\ heap = <<>>
    /\ phi = "none" /\ phip = "none" /\ k = 0 /\ before = <<>>

NwIdle ==
    /\ Ffun = "none" /\ Fcallable = FALSE /\ guess = None /\ xn = Zero

\* ------------------------------------------------------ the ODE steppers
Methods == {"eeuler", "runge_kutta2", "runge_kutta4", "crank_nicolson",
            "adams_bashforth2"}

\* The arguments the callers pass.
TiSet == {Zero, Two}

TfSet == {One, FromInt(MaxTf)}

DtSet == {FromInt(-1), Zero, Dyadic(3, 3), Half, One}

TolSet == {Zero, Dyadic(1, 4)}

OdeInit ==
    /\ method \in Methods
    /\ fid \in Fids
    /\ fcallable \in BOOLEAN
    /\ y0 = One
    /\ dt \in DtSet
    /\ ti \in TiSet
    /\ tf \in TfSet
    /\ linearize \in BOOLEAN
    /\ tol \in TolSet
    /\ max_iter \in 0..MaxIter
    /\ (method # "crank_nicolson" =>
            linearize = TRUE /\ tol = Zero /\ max_iter = 0)
    /\ t = <<>> /\ N = 0 /\ Y = <<>> /\ yn = Zero /\ tn = Zero /\ n = 0
    /\ fn = Zero /\ tnp = Zero /\ ynp = Zero /\ F = Zero /\ niter = 0
    /\ fnm = Zero /\ ylin = Zero
    /\ evaluated = FALSE
    /\ pc = "start"
    /\ PdeIdle
    /\ NwIdle

\* assert callable(f) [and callable(dfdy)]
AssertFails ==
    /\ pc = "start"
    /\ ~fcallable
    /\ pc' = "AssertionError"
    /\ UNCHANGED <<pdeOnly, nwOnly, odeArgs, t, N, Y, yn, tn, n, cnLocals, fnm, evaluated>>

\* np.arange with a zero step raises (its length is a division by the step).
ArangeFails ==
    /\ pc = "start"
    /\ fcallable
    /\ dt = Zero
    /\ pc' = "ArangeError"
    /\ UNCHANGED <<pdeOnly, nwOnly, odeArgs, t, N, Y, yn, tn, n, cnLocals, fnm, evaluated>>

\* eeuler, runge_kutta2, runge_kutta4, crank_nicolson up to the loop.
Setup ==
    /\ pc = "start"
    /\ fcallable
    /\ dt # Zero
    /\ method # "adams_bashforth2"
    /\ t' = TimeAxis(ti, tf, dt)
    /\ N' = Len(t')
    /\ Y' = <<y0>>
    /\ yn' = y0
    /\ tn' = ti
    /\ n' = 0
    /\ pc' = "loop"
    /\ UNCHANGED <<pdeOnly, nwOnly, odeArgs, cnLocals, fnm, evaluated>>

\* adams_bashforth2 up to the loop: the time axis, then one call of
\* runge_kutta4 over [t[0], t[1]].
SetupAB2 ==
    /\ pc = "start"
    /\ fcallable
    /\ dt # Zero
    /\ method = "adams_bashforth2"
    /\ t' = TimeAxis(ti, tf, dt)
    /\ N' = Len(t')
    /\ IF Len(t') < 2
       THEN /\ pc' = "IndexError"
            /\ UNCHANGED <<Y, yn, tn, n, fnm, evaluated>>
       ELSE LET first == runge_kutta4(fid, y0, dt, t'[1], t'[2])
                len   == Len(first.Y)
            IN  IF len < 2
                THEN /\ pc' = "IndexError"
                     /\ evaluated' = (Len(first.t) > 0)
                     /\ UNCHANGED <<Y, yn, tn, n, fnm>>
                ELSE /\ Y' = first.Y
                     /\ yn' = first.Y[len]
                     /\ tn' = first.t[len]
                     /\ fnm' = f(fid, first.Y[len - 1], first.t[len - 1])
                     /\ n' = 1
                     /\ evaluated' = TRUE
                     /\ pc' = "loop"
    /\ UNCHANGED <<pdeOnly, nwOnly, odeArgs, cnLocals>>

\* One pass of the while loop of the explicit one-step methods.
ExplicitStep ==
    /\ pc = "loop"
    /\ n < N
    /\ method \in {"eeuler", "runge_kutta2", "runge_kutta4"}
    /\ LET next == CASE method = "eeuler"       -> EulerUpdate(fid, yn, tn, dt)
                     [] method = "runge_kutta2" -> RK2Update(fid, yn, tn, dt)
                     [] method = "runge_kutta4" -> RK4Update(fid, yn, tn, dt)
       IN  /\ Y' = Append(Y, next)
           /\ yn' = next
    /\ tn' = FAdd(tn, dt)
    /\ n' = n + 1
    /\ evaluated' = TRUE
    /\ UNCHANGED <<pdeOnly, nwOnly, odeArgs, t, N, cnLocals, fnm, pc>>

\* One pass of adams_bashforth2's while loop.
AB2Step ==
    /\ pc = "loop"
    /\ n < N
    /\ method = "adams_bashforth2"
    /\ LET fnow == f(fid, yn, tn)
           next == AB2Update(yn, fnow, fnm, dt)
       IN  /\ Y' = Append(Y, next)
           /\ yn' = next
           /\ fnm' = fnow
    /\ tn' = FAdd(tn, dt)
    /\ n' = n + 1
    /\ UNCHANGED <<pdeOnly, nwOnly, odeArgs, t, N, cnLocals, evaluated, pc>>

\* crank_nicolson: the linearized step; with linearize it ends the pass,
\* without it the Newton loop follows.
CNStep ==
    /\ pc = "loop"
    /\ n < N
    /\ method = "crank_nicolson"
    /\ evaluated' = TRUE
    /\ fn' = f(fid, yn, tn)
    /\ tnp' = FAdd(tn, dt)
    /\ IF CNDen(fid, yn, tnp', dt) = Zero
       THEN /\ pc' = "ZeroDivisionError"
            /\ UNCHANGED <<Y, yn, tn, n, ynp, F, niter, ylin>>
       ELSE /\ ynp' = CNLinearized(fid, yn, tn, dt)
            /\ ylin' = ynp'
            /\ IF linearize
               THEN /\ Y' = Append(Y, ynp')
                    /\ yn' = ynp'
                    /\ tn' = FAdd(tn, dt)
                    /\ n' = n + 1
                    /\ UNCHANGED <<F, niter, pc>>
               ELSE /\ F' = CNResidual(fid, ynp', yn, fn', tnp', dt)
                    /\ niter' = 0
                    /\ pc' = "newton"
                    /\ UNCHANGED <<Y, yn, tn, n>>
    /\ UNCHANGED <<pdeOnly, nwOnly, odeArgs, t, N, fnm>>

\* One pass of the Newton loop.
CNNewton ==
    /\ pc = "newton"
    /\ NewtonContinue(F, tol, niter, max_iter)
    /\ ynp' = FSub(ynp, FDiv(F, CNDen(fid, yn, tnp, dt)))
    /\ F' = CNResidual(fid, ynp', yn, fn, tnp, dt)
    /\ niter' = niter + 1
    /\ UNCHANGED <<pdeOnly, nwOnly, odeArgs, t, N, Y, yn, tn, n, fn, tnp, fnm, ylin, evaluated, pc>>

\* The Newton loop has ended: the rest of the pass.
CNAppend ==
    /\ pc = "newton"
    /\ ~NewtonContinue(F, tol, niter, max_iter)
    /\ Y' = Append(Y, ynp)
    /\ yn' = ynp
    /\ tn' = FAdd(tn, dt)
    /\ n' = n + 1
    /\ pc' = "loop"
    /\ UNCHANGED <<pdeOnly, nwOnly, odeArgs, t, N, cnLocals, fnm, evaluated>>

\* The loop has ended: Y = np.array(Y[:-1]); return Y, t
Return ==
    /\ pc = "loop"
    /\ ~(n < N)
    /\ Y' = Trim(Y)
    /\ pc' = "done"
    /\ UNCHANGED <<pdeOnly, nwOnly, odeArgs, t, N, yn, tn, n, cnLocals, fnm, evaluated>>

OdeNext ==
    \/ AssertFails
    \/ ArangeFails
    \/ Setup
    \/ SetupAB2
    \/ ExplicitStep
    \/ AB2Step
    \/ CNStep
    \/ CNNewton
    \/ CNAppend
    \/ Return

SpecOde == OdeInit /\ [][OdeNext]_vars

PdeInit ==
    /\ shape \in Shapes
    /\ RHS \in RHSFields(shape)
    /\ phi0 \in Phi0Fields(shape)
    /\ tol \in PdeTolSet
    /\ max_iter \in 0..MaxIter
    /\ heap = <<>> /\ phi = "none" /\ phip = "none" /\ k = 0
    /\ before = phi0
    /\ pc = "start"
    /\ niter = 0
    /\ OdeIdle
    /\ NwIdle

\* phi = phi0.copy(); phip = phi + np.random.random(phi.shape); k=0
PdeSetup ==
    /\ pc = "start"
    /\ \E r \in RandomFields(shape) :
          heap' = [x \in {"a", "b"} |->
                      IF x = "a" THEN phi0
                      ELSE [c \in Cells(shape) |-> FAdd(phi0[c], r[c])]]
    /\ phi' = "a"
    /\ phip' = "b"
    /\ k' = 0
    /\ before' = phi0
    /\ pc' = "loop"
    /\ UNCHANGED <<odeOnly, nwOnly, niter, pdeArgs>>

\* One pass of the while loop.
Sweep ==
    /\ pc = "loop"
    /\ SweepAgain(heap, phi, phip, tol, k, max_iter)
    /\ LET b == Rebind(heap, phip)
       IN  /\ phi' = b.phi
           /\ heap' = SweepFrom(b.heap, b.phi, phip, RHS, SweepOrder(shape, 1, 1))
    /\ before' = heap[phip]
    /\ k' = k + 1
    /\ UNCHANGED <<odeOnly, nwOnly, niter, pdeArgs, phip, pc>>

\* return phip
PdeReturn ==
    /\ pc = "loop"
    /\ ~SweepAgain(heap, phi, phip, tol, k, max_iter)
    /\ pc' = "done"
    /\ UNCHANGED <<odeOnly, nwOnly, niter, pdeArgs, heap, phi, phip, k, before>>

PdeNext ==
    \/ PdeSetup
    \/ Sweep
    \/ PdeReturn

SpecPde == PdeInit /\ [][PdeNext]_vars

NwInit ==
    /\ Ffun \in Ffuns
    /\ Fcallable \in BOOLEAN
    /\ guess \in GuessSet
    /\ tol \in NwTolSet
    /\ max_iter \in 0..MaxIter
    /\ xn = Zero
    /\ niter = 0
    /\ pc = "start"
    /\ OdeIdle
    /\ PdeIdle

\* assert callable(F); assert callable(dFdx)
NwAssertFails ==
    /\ pc = "start"
    /\ ~Fcallable
    /\ pc' = "AssertionError"
    /\ UNCHANGED <<odeOnly, pdeOnly, nwArgs, xn, niter>>

NwSetup ==
    /\ pc = "start"
    /\ Fcallable
    /\ xn' = FirstIterate(guess, tol)
    /\ niter' = 0
    /\ pc' = "loop"
    /\ UNCHANGED <<odeOnly, pdeOnly, nwArgs>>

\* The loop body, xn = xn - Fn(xn)/dFfx(xn), names Fn and dFfx, which are
\* defined nowhere: evaluating it raises NameError.
NwBody ==
    /\ pc = "loop"
    /\ NewtonAgain(Ffun, xn, tol, niter, max_iter)
    /\ pc' = "NameError"
    /\ UNCHANGED <<odeOnly, pdeOnly, nwArgs, xn, niter>>

\* return xn
NwReturn ==
    /\ pc = "loop"
    /\ ~NewtonAgain(Ffun, xn, tol, niter, max_iter)
    /\ pc' = "done"
    /\ UNCHANGED <<odeOnly, pdeOnly, nwArgs, xn, niter>>

NwNext ==
    \/ NwAssertFails
    \/ NwSetup
    \/ NwBody
    \/ NwReturn

SpecNewton == NwInit /\ [][NwNext]_vars

\* ======================================================= the ODE steppers
\* Exact (unrounded) arithmetic on floats, for stating lengths.
MinExp(x, y, z) ==
    LET a == IF x.e < y.e THEN x.e ELSE y.e
    IN  IF a < z.e THEN a ELSE z.e

\* x as a multiple of 2^e, for e <= x.e
Scaled(x, e) == x.m * Pow2(x.e - e)

\* ceil((tf - ti)/dt) + 1 for dt > 0, computed without rounding
ExactGridCount ==
    LET e == MinExp(ti, tf, dt)
        A == Scaled(tf, e) - Scaled(ti, e)
        B == Scaled(dt, e)
    IN  -((-A) \div B) + 1

\* round((tf - ti)/dt) for dt > 0, computed without rounding (ties to even)
RoundedQuotient ==
    LET e == MinExp(ti, tf, dt)
        A == Scaled(tf, e) - Scaled(ti, e)
        B == Scaled(dt, e)
        q == A \div B
        r == A % B
    IN  IF 2 * r > B \/ (2 * r = B /\ q % 2 = 1) THEN q + 1 ELSE q

\* No operation of ceil((tf + dt - ti)/dt) rounds.
GridExact ==
    LET stop == FAdd(tf, dt)
        diff == FSub(stop, ti)
        quot == FDiv(diff, dt)
        e    == MinExp(ti, tf, dt)
    IN  /\ Scaled(stop, e) = Scaled(tf, e) + Scaled(dt, e)
        /\ Scaled(diff, e) = Scaled(stop, e) - Scaled(ti, e)
        /\ Norm(quot.m * dt.m, quot.e + dt.e) = diff

\* C1: whenever a stepper returns (Y, t), Y and t have the same number of
\* entries.
C1_SameLength == pc = "done" => Len(Y) = Len(t)

\* C2 as stated: for ti < tf and dt > 0 the common length of the returned
\* trajectory and time grid is round((tf - ti)/dt).
C2_LengthIsRounded ==
    (pc = "done" /\ FLt(ti, tf) /\ FLt(Zero, dt)) =>
        (Len(Y) = Len(t) /\ Len(Y) = RoundedQuotient)

\* C2 as amended: for ti < tf and dt > 0 the returned time grid has
\* ceil((tf + dt - ti)/dt) entries, which whenever no operation of that
\* quotient rounds is ceil((tf - ti)/dt) + 1, the number of points
\* ti, ti + dt, ... strictly below tf + dt; and the trajectory of eeuler,
\* runge_kutta2, runge_kutta4 and crank_nicolson has the same length.
C2_LengthIsGridCount ==
    (pc = "done" /\ FLt(ti, tf) /\ FLt(Zero, dt)) =>
        /\ Len(t) = ArangeLen(ti, FAdd(tf, dt), dt)
        /\ GridExact => Len(t) = ExactGridCount
        /\ method # "adams_bashforth2" => Len(Y) = Len(t)

C2_Witness ==
    /\ pc = "done"
    /\ method = "runge_kutta4"
    /\ FLt(ti, tf)
    /\ FLt(Zero, dt)
    /\ GridExact
    /\ Len(Y) >= 3
    /\ Len(Y) = ExactGridCount
    /\ Len(Y) = RoundedQuotient + 1

\* C6: an explicit stepper called with a non-callable f or with dt <= 0
\* fails before any time step is taken and before f is evaluated, and
\* returns no trajectory.
C6_RejectsBadArguments ==
    (/\ method \in {"eeuler", "runge_kutta2", "runge_kutta4"}
     /\ (~fcallable \/ FLe(dt, Zero))) =>
        /\ pc \in {"start", "AssertionError", "ArangeError"}
        /\ ~evaluated
        /\ Len(Y) = 0

\* The times the marching loop reaches: t_0 = ti, t_(k+1) = t_k + dt
\* (1-based: MarchTime(1) = ti).
RECURSIVE MarchTime(_)
MarchTime(j) == IF j <= 1 THEN ti ELSE FAdd(MarchTime(j - 1), dt)

\* C8: in adams_bashforth2 the second entry of the trajectory is the RK4
\* step from y0, every later entry is the AB2 update of the two entries
\* before it, and the cached fnm is f at the entry before the current one.
C8_OneRK4StepThenAB2 ==
    (method = "adams_bashforth2" /\ pc \in {"loop", "done"}) =>
        /\ Len(Y) >= 2
        /\ Y[1] = y0
        /\ Y[2] = RK4Update(fid, y0, ti, dt)
        /\ \A j \in 2..(Len(Y) - 1) :
              Y[j + 1] = AB2Update(Y[j], f(fid, Y[j], MarchTime(j)),
                                   f(fid, Y[j - 1], MarchTime(j - 1)), dt)
        /\ pc = "loop" =>
              fnm = f(fid, Y[Len(Y) - 1], MarchTime(Len(Y) - 1))

\* C9: in crank_nicolson the Newton loop starts from the linearized value,
\* keeps F the residual of the current iterate and never takes more than
\* max_iter passes; a finished pass of the time loop appended the last
\* iterate, which with linearize is the linearized value (no Newton pass)
\* and without it has |F| <= tol or was reached after exactly max_iter
\* passes; leaving the Newton loop raises no error.
C9_StepDone == method = "crank_nicolson" /\ pc = "loop" /\ n >= 1

C9_State ==
    method = "crank_nicolson" =>
        /\ niter <= max_iter
        /\ (pc = "newton" /\ niter = 0) => ynp = ylin
        /\ pc = "newton" =>
              F = CNResidual(fid, ynp, yn, f(fid, yn, tn), FAdd(tn, dt), dt)
        /\ linearize => pc # "newton"
        /\ C9_StepDone =>
              /\ Y[Len(Y)] = ynp
              /\ yn = ynp
              /\ IF linearize
                 THEN ynp = ylin /\ niter = 0
                 ELSE FLe(FAbs(F), tol) \/ niter = max_iter

C9_NewtonCorrection ==
    /\ []C9_State
    /\ [][pc = "newton" => pc' \in {"newton", "loop"}]_vars

C9_Witness ==
    /\ C9_StepDone
    /\ ~linearize
    /\ max_iter = 2
    /\ niter = max_iter
    /\ FLt(tol, FAbs(F))
    /\ ynp # ylin
    /\ Y[Len(Y)] = ynp

\* ===================================================== pjacobi_poissoneq
\* The array the call returns (or would return now).
Current == heap[phip]

\* The change between the two latest full-grid iterates.
LastChange == MaxAbsDiff(Current, before)

\* C3: after every sweep and in the returned field the boundary entries are
\* those of the initial guess phi0.
C3_BoundaryKept ==
    (pc \in {"loop", "done"} /\ (k >= 1 \/ pc = "done")) =>
        \A c \in Boundary(shape) : Current[c] = phi0[c]

\* C4: after a sweep every interior entry is 0.25*(the sum of its four
\* neighbours in the iterate before the sweep - RHS).
C4_JacobiSweep ==
    (pc \in {"loop", "done"} /\ k >= 1) =>
        \A c \in Interior(shape) : Current[c] = Stencil(before, RHS, c)

\* C7: at most max_iter sweeps are performed, and the call returns with
\* fewer only when the change between the two latest iterates is <= tol.
C7_SweepBudget ==
    /\ pc \in {"loop", "done"} => k <= max_iter
    /\ (pc = "done" /\ k < max_iter) => FLe(LastChange, tol)

\* C10: from the end of the first sweep on, phi and phip name the same
\* array and the measured change is 0; so for tol >= 0 at most one sweep is
\* performed.
C10_AliasedAfterFirstSweep ==
    pc \in {"loop", "done"} =>
        /\ k >= 1 => (phi = phip /\ MaxAbsDiff(heap[phip], heap[phi]) = Zero)
        /\ FLe(Zero, tol) => k <= 1

C10_Witness ==
    /\ pc = "done"
    /\ k = 1
    /\ max_iter = 2
    /\ FLe(Zero, tol)
    /\ phi = phip
    /\ FLt(tol, LastChange)

\* ================================================================ newton
\* The iterate after cnt updates x - F(x)/dFdx(x) from x, where every
\* derivative met is nonzero.
RECURSIVE NewtonIterate(_, _, _)
NewtonIterate(fun, x, cnt) ==
    IF cnt = 0 \/ dFdx(fun, x) = Zero THEN x
    ELSE NewtonIterate(fun, FSub(x, FDiv(Feval(fun, x), dFdx(fun, x))), cnt - 1)

RECURSIVE DerivativeNonzero(_, _, _)
DerivativeNonzero(fun, x, cnt) ==
    \/ cnt = 0
    \/ /\ dFdx(fun, x) # Zero
       /\ DerivativeNonzero(fun, FSub(x, FDiv(Feval(fun, x), dFdx(fun, x))), cnt - 1)

\* C5: newton returns x with |F(x)| <= tol, or the iterate after max_iter
\* updates from the supplied guess; and it returns, rather than failing,
\* whenever dFdx is nonzero at every iterate.
C5_NewtonContract ==
    Fcallable =>
        /\ pc = "done" =>
              \/ FLe(FAbs(Feval(Ffun, xn)), tol)
              \/ /\ niter = max_iter
                 /\ guess.given => xn = NewtonIterate(Ffun, guess.value, max_iter)
        /\ (guess.given /\ DerivativeNonzero(Ffun, guess.value, max_iter)) =>
              pc \in {"start", "loop", "done"}

====
